---- MODULE Spec2Model ----
(***************************************************************************)
(* Top-K text generation of notebooks/223-gpt2-text-prediction:            *)
(* process_logits, get_top_k_logits, softmax and the generate_sequence     *)
(* loop.  Arrays of shape (1, n) are modelled as sequences of length n;    *)
(* a token id t is the 0-based index, stored at sequence position t + 1.   *)
(***************************************************************************)
EXTENDS Integers, Sequences, FiniteSets, TLC

\* ---------------------------------------------------------------- bounds
\* vocabulary size (len(vocab)) in generate_sequence, kept small
V == 3
\* scores.shape[-1] when the logits pipeline is called on its own
NScores == 3
\* finite logit scores are drawn from 0..MaxScore
MaxScore == 1
\* max_sequence_length is drawn from 1..MaxSeqLen
MaxSeqLen == 2
\* prompts have 0..MaxPromptLen tokens, so that some are over-long
MaxPromptLen == MaxSeqLen + 1
\* input_ids is not grown past GrowCap tokens
GrowCap == MaxPromptLen + 1
\* min_length and the length of input_ids given to process_logits: 0..MaxMinLength
MaxMinLength == 2

\* ------------------------------------------------------------- constants
\* filter_value = -float("inf"): below every finite score
NegInf == -1
\* top_k = 20 in generate_sequence
TopKDefault == 20
\* min_length=0, the default of process_logits
MinLengthDefault == 0

Tokens == 0..(V - 1)
Scores == 0..MaxScore
\* eos_token_id = len(vocab) - 1
eos_token_id == V - 1
\* value of next_tokens before the first draw
NoToken == 0 - 1

VARIABLES
    \* generate_sequence
    prompt,               \* the input_ids argument as passed by the caller
    max_sequence_length,  \* the max_sequence_length argument
    input_ids,            \* the growing token sequence
    cur_input_len,        \* local of the loop body
    model_input,          \* the padded matrix given to compiled_model
    logits_row,           \* 0-based position of the logits row read back
    next_tokens,          \* the last token drawn
    calls,                \* number of compiled_model invocations so far
    pc,                   \* "run" (loop head), "called" (model invoked), "done";
                          \* "idle" when generate_sequence is not running
    \* the logits pipeline called on its own
    scores,               \* the caller's scores array
    scores_before,        \* its content when process_logits was called
    cur_length,           \* input_ids.shape[-1] of the argument
    min_length,
    eos_arg,
    top_k,
    next_token_scores,    \* what process_logits returned
    filtred_scores,       \* what get_top_k_logits returned
    probs,                \* what softmax returned
    choice,               \* what np.random.choice returned
    fpc                   \* "start", "processed", "filtered", "probs", "sampled";
                          \* "idle" when the pipeline is not called on its own

genVars == <<prompt, max_sequence_length, input_ids, cur_input_len, model_input,
             logits_row, next_tokens, calls, pc>>
filterVars == <<scores, scores_before, cur_length, min_length, eos_arg, top_k,
                next_token_scores, filtred_scores, probs, choice, fpc>>
vars == <<genVars, filterVars>>

\* ---------------------------------------------------------------- helpers
Min2(a, b) == IF a < b THEN a ELSE b
Max2(a, b) == IF a > b THEN a ELSE b

RECURSIVE Pow2(_)
Pow2(n) == IF n <= 0 THEN 1 ELSE 2 * Pow2(n - 1)

\* e_x.sum(): a function, so that its argument is evaluated once
SeqSum[s \in Seq(Int)] == IF s = <<>> THEN 0 ELSE Head(s) + SeqSum[Tail(s)]

\* np.max / np.min over a non-empty array
SeqMax(s) == CHOOSE m \in {s[i] : i \in 1..Len(s)} : \A i \in 1..Len(s) : s[i] <= m
SeqMin(s) == CHOOSE m \in {s[i] : i \in 1..Len(s)} : \A i \in 1..Len(s) : m <= s[i]

RemoveAt(s, i) == SubSeq(s, 1, i - 1) \o SubSeq(s, i + 1, Len(s))

\* -np.sort(-scores): the scores in descending order
SortDesc[s \in Seq(Int)] ==
    IF s = <<>> THEN <<>>
    ELSE LET i == CHOOSE j \in 1..Len(s) : s[j] = SeqMax(s)
         IN  <<s[i]>> \o SortDesc[RemoveAt(s, i)]

\* sequences over S of length 0..n
SeqsUpTo(S, n) == UNION {[1..k -> S] : k \in 0..n}

\* -------------------------------------------------------- process_logits
\* scores[:, eos_token_id] = -inf when cur_length < min_length; the array
\* returned is the array passed in.
process_logits(len, sc, eos, minlen) ==
    IF len < minlen THEN [sc EXCEPT ![eos + 1] = NegInf] ELSE sc

\* ------------------------------------------------------ get_top_k_logits
get_top_k_logits_le(sc, k) ==
    LET kk == Min2(Max2(k, 1), Len(sc))
        top_k_scores == SubSeq(SortDesc[sc], 1, kk)
        thr == SeqMin(top_k_scores)
    IN  [i \in 1..Len(sc) |-> IF sc[i] <= thr THEN NegInf ELSE sc[i]]

get_top_k_logits(sc, k) ==
    LET kk == Min2(Max2(k, 1), Len(sc))
        top_k_scores == SubSeq(SortDesc[sc], 1, kk)
        thr == SeqMin(top_k_scores)
    IN  [i \in 1..Len(sc) |-> IF sc[i] < thr THEN NegInf ELSE sc[i]]

\* ---------------------------------------------------------------- softmax
\* e_x = exp(x - max(x)); each probability is kept as the pair
\* <<e_x[i], summation>>.  exp is taken to base 2 and scaled by 2^MaxScore so
\* that the weights are integers; exp(-inf) = 0.  When every entry is -inf,
\* x - max(x) is NaN: the pair <<0, 0>>.
softmax_finiteFill(x) ==
    LET m == SeqMax(x)
        e_x == [i \in 1..Len(x) |-> Pow2(MaxScore - (m - x[i]))]
    IN  [i \in 1..Len(x) |-> <<e_x[i], SeqSum[e_x]>>]

softmax(x) ==
    LET m == SeqMax(x)
        e_x == [i \in 1..Len(x) |->
                   IF m = NegInf \/ x[i] = NegInf THEN 0
                   ELSE Pow2(MaxScore - (m - x[i]))]
    IN  [i \in 1..Len(x) |-> <<e_x[i], SeqSum[e_x]>>]

\* np.random.choice(n, 1, p=probs[0]): any index of non-zero probability
Draws(p) == {i - 1 : i \in {j \in 1..Len(p) : p[j][1] > 0}}

\* ------------------------------------------------------ generate_sequence
\* [[eos_token_id] * pad_len]: a list times a negative number is empty
Pad(pad_len, eos) == [i \in 1..(IF pad_len > 0 THEN pad_len ELSE 0) |-> eos]

\* outputs[:, cur_input_len - 1, :]: a negative index counts from the end
RowIndex(idx, nrows) == IF idx < 0 THEN nrows + idx ELSE idx

StopNoLen(cur, maxlen, tok, eos) == tok = eos
StopNoEos(cur, maxlen, tok, eos) == cur = maxlen
StopOffByOne(cur, maxlen, tok, eos) == cur + 1 >= maxlen \/ tok = eos
StopAfterMax(cur, maxlen, tok, eos) == cur > maxlen \/ tok = eos

\* if cur_input_len == max_sequence_length or next_tokens == eos_token_id
StopCondition(cur, maxlen, tok, eos) == cur = maxlen \/ tok = eos

ConcatDrop(ids, tok) == ids

\* np.concatenate((input_ids, [next_tokens]), axis=-1)
Concat(ids, tok) == Append(ids, tok)

\* loop head up to the model invocation
CallModel ==
    /\ pc = "run"
    /\ cur_input_len' = Len(input_ids)
    /\ model_input' = input_ids \o Pad(max_sequence_length - Len(input_ids), eos_token_id)
    /\ logits_row' = RowIndex(Len(input_ids) - 1, Len(model_input'))
    /\ calls' = calls + 1
    /\ pc' = "called"
    /\ UNCHANGED <<prompt, max_sequence_length, input_ids, next_tokens>>
    /\ UNCHANGED filterVars

\* the model's output row, the filtering, the draw and the stop test
SampleAndCheck ==
    /\ pc = "called"
    /\ \E next_token_logits \in [1..V -> Scores] :
       \E processed \in {process_logits(Len(input_ids), next_token_logits,
                                         eos_token_id, MinLengthDefault)} :
       \E filtred \in {get_top_k_logits(processed, TopKDefault)} :
       \E ps \in {softmax(filtred)} :
       \E tok \in Draws(ps) :
         /\ next_tokens' = tok
         /\ IF StopCondition(cur_input_len, max_sequence_length, tok, eos_token_id)
            THEN /\ pc' = "done"
                 /\ input_ids' = input_ids
            ELSE /\ Len(input_ids) < GrowCap
                 /\ pc' = "run"
                 /\ input_ids' = Concat(input_ids, tok)
    /\ UNCHANGED <<prompt, max_sequence_length, cur_input_len, model_input,
                   logits_row, calls>>
    /\ UNCHANGED filterVars

FilterIdle ==
    /\ scores = <<>> /\ scores_before = <<>> /\ cur_length = 0 /\ min_length = 0
    /\ eos_arg = 0 /\ top_k = 0 /\ next_token_scores = <<>> /\ filtred_scores = <<>>
    /\ probs = <<>> /\ choice = NoToken /\ fpc = "idle"

Init ==
    /\ max_sequence_length \in 1..MaxSeqLen
    /\ prompt \in SeqsUpTo(Tokens, MaxPromptLen)
    /\ input_ids = prompt
    /\ cur_input_len = 0
    /\ model_input = <<>>
    /\ logits_row = 0
    /\ next_tokens = NoToken
    /\ calls = 0
    /\ pc = "run"
    /\ FilterIdle

Next == CallModel \/ SampleAndCheck

Spec == Init /\ [][Next]_vars

\* the loop runs to completion once started
FairSpec == Spec /\ WF_vars(Next)

\* ------------------------------------------- the logits pipeline on its own
GenIdle ==
    /\ prompt = <<>> /\ max_sequence_length = 0 /\ input_ids = <<>>
    /\ cur_input_len = 0 /\ model_input = <<>> /\ logits_row = 0
    /\ next_tokens = NoToken /\ calls = 0 /\ pc = "idle"

FilterInit ==
    /\ GenIdle
    /\ scores \in [1..NScores -> Scores]
    /\ scores_before = scores
    /\ cur_length \in 0..MaxMinLength
    /\ min_length \in 0..MaxMinLength
    /\ eos_arg \in 0..(NScores - 1)
    /\ top_k \in (0 - 1)..(NScores + 1)
    /\ next_token_scores = <<>>
    /\ filtred_scores = <<>>
    /\ probs = <<>>
    /\ choice = NoToken
    /\ fpc = "start"

\* next_token_scores = process_logits(input_ids, scores, eos_token_id, min_length):
\* the assignment scores[:, eos_token_id] = -inf writes into the caller's array
ProcessLogits ==
    /\ fpc = "start"
    /\ scores' = process_logits(cur_length, scores, eos_arg, min_length)
    /\ next_token_scores' = scores'
    /\ fpc' = "processed"
    /\ UNCHANGED <<scores_before, cur_length, min_length, eos_arg, top_k,
                   filtred_scores, probs, choice>>
    /\ UNCHANGED genVars

\* filtred = get_top_k_logits(next_token_scores, top_k): a new array (.filled())
GetTopKLogits ==
    /\ fpc = "processed"
    /\ filtred_scores' = get_top_k_logits(next_token_scores, top_k)
    /\ fpc' = "filtered"
    /\ UNCHANGED <<scores, scores_before, cur_length, min_length, eos_arg, top_k,
                   next_token_scores, probs, choice>>
    /\ UNCHANGED genVars

\* probs = softmax(filtred)
Softmax ==
    /\ fpc = "filtered"
    /\ probs' = softmax(filtred_scores)
    /\ fpc' = "probs"
    /\ UNCHANGED <<scores, scores_before, cur_length, min_length, eos_arg, top_k,
                   next_token_scores, filtred_scores, choice>>
    /\ UNCHANGED genVars

\* np.random.choice(probs.shape[-1], 1, p=probs[0], replace=True)
RandomChoice ==
    /\ fpc = "probs"
    /\ \E tok \in Draws(probs) : choice' = tok
    /\ fpc' = "sampled"
    /\ UNCHANGED <<scores, scores_before, cur_length, min_length, eos_arg, top_k,
                   next_token_scores, filtred_scores, probs>>
    /\ UNCHANGED genVars

FilterNext == ProcessLogits \/ GetTopKLogits \/ Softmax \/ RandomChoice

FilterSpec == FilterInit /\ [][FilterNext]_vars

\* ================================================================ claims
IsPrefix(p, s) == Len(p) <= Len(s) /\ SubSeq(s, 1, Len(p)) = p
\* the tokens appended after the prompt
Appended == SubSeq(input_ids, Len(prompt) + 1, Len(input_ids))
PromptFits == Len(prompt) <= max_sequence_length
Repeat(t, n) == [i \in 1..n |-> t]

\* C1: for a prompt of 1..max_sequence_length tokens, input_ids always holds
\* between 1 and max_sequence_length tokens and never fewer than the prompt,
\* so the sequence returned has at least len(prompt) and at most
\* max_sequence_length tokens.
C1_LengthBounds ==
    (1 <= Len(prompt) /\ PromptFits) =>
        /\ 1 <= Len(input_ids)
        /\ Len(input_ids) <= max_sequence_length
        /\ Len(prompt) <= Len(input_ids)

C1_Witness ==
    /\ pc = "done"
    /\ 1 <= Len(prompt) /\ Len(prompt) < max_sequence_length
    /\ Len(input_ids) = max_sequence_length

\* C2 (as claimed): the model is never invoked while cur_len equals
\* max_sequence_length.
C2_NoCallAtMax ==
    pc = "called" => cur_input_len # max_sequence_length

\* C2 (amended): an iteration that starts with len(input_ids) equal to
\* max_sequence_length invokes the model once more, then stops whatever token
\* is drawn and leaves input_ids unchanged.
C2_CallThenStopAtMax ==
    [][ /\ (pc = "run" /\ Len(input_ids) = max_sequence_length) =>
              (pc' = "called" /\ calls' = calls + 1 /\ input_ids' = input_ids)
        /\ (pc = "called" /\ cur_input_len = max_sequence_length) =>
              (pc' = "done" /\ input_ids' = input_ids /\ calls' = calls) ]_vars

C2_Witness ==
    /\ pc = "done"
    /\ cur_input_len = max_sequence_length
    /\ Len(prompt) = max_sequence_length
    /\ calls = 1
    /\ next_tokens # eos_token_id
    /\ input_ids = prompt

\* C3: no token equal to eos_token_id is ever appended: input_ids is the
\* prompt followed only by tokens other than eos_token_id, and when the first
\* token drawn is eos_token_id the sequence returned is the prompt.
C3_EosNeverAppended ==
    /\ IsPrefix(prompt, input_ids)
    /\ \A i \in 1..Len(Appended) : Appended[i] # eos_token_id
    /\ (pc = "done" /\ calls = 1 /\ next_tokens = eos_token_id) => input_ids = prompt

C3_Witness ==
    /\ pc = "done"
    /\ next_tokens = eos_token_id
    /\ Len(Appended) >= 1
    /\ Len(input_ids) < max_sequence_length

\* C4 (as claimed): a prompt longer than max_sequence_length is rejected
\* before any model call and before any token is appended.
C4_FailFast ==
    Len(prompt) > max_sequence_length =>
        /\ calls = 0
        /\ input_ids = prompt

\* C7: when every token drawn is the same token t # eos_token_id and the
\* prompt has n <= max_sequence_length tokens, the sequence returned is the
\* prompt followed by max_sequence_length - n copies of t, and the loop stops
\* because of the length, not because of eos.
C7_FillsToMax ==
    ( /\ pc = "done"
      /\ PromptFits
      /\ next_tokens # eos_token_id
      /\ \A i \in 1..Len(Appended) : Appended[i] = next_tokens ) =>
        /\ input_ids = prompt \o Repeat(next_tokens, max_sequence_length - Len(prompt))
        /\ Len(input_ids) = max_sequence_length
        /\ cur_input_len = max_sequence_length

C7_Witness ==
    /\ pc = "done"
    /\ Len(prompt) >= 1
    /\ Len(prompt) < max_sequence_length
    /\ next_tokens # eos_token_id
    /\ Appended = Repeat(next_tokens, max_sequence_length - Len(prompt))

\* C9 (as claimed): at every model call the matrix has exactly
\* max_sequence_length columns, input_ids first and eos_token_id after it, and
\* the row read back is the one at position cur_len - 1.
C9_PaddedInput ==
    pc = "called" =>
        /\ Len(model_input) = max_sequence_length
        /\ SubSeq(model_input, 1, cur_input_len) = input_ids
        /\ \A i \in (cur_input_len + 1)..Len(model_input) : model_input[i] = eos_token_id
        /\ logits_row = cur_input_len - 1

\* C10: for a prompt of at most max_sequence_length tokens the loop reaches
\* its end; every iteration makes one model call, an iteration that does not
\* end the loop appends exactly one token and keeps the earlier ones, and
\* there are at most max_sequence_length - len(prompt) + 1 iterations.
C10_Terminates ==
    /\ [](PromptFits =>
            /\ calls <= max_sequence_length - Len(prompt) + 1
            /\ IsPrefix(prompt, input_ids)
            /\ Len(input_ids) = Len(prompt) + calls - (IF pc = "run" THEN 0 ELSE 1))
    /\ [][ (pc = "called" /\ pc' = "run") =>
              (Len(input_ids') = Len(input_ids) + 1 /\ IsPrefix(input_ids, input_ids')) ]_vars
    /\ [](PromptFits => <>(pc = "done"))

C10_Witness ==
    /\ pc = "done"
    /\ Len(prompt) >= 1
    /\ calls >= 2
    /\ calls = max_sequence_length - Len(prompt) + 1

\* ---------------------------------------------------- the logits pipeline
Filtered == fpc \in {"filtered", "probs", "sampled"}
\* top_k clamped to [1, size of the vector]
ClampedTopK == Min2(Max2(top_k, 1), Len(next_token_scores))
\* the k-th largest score of s: fewer than k entries are above it, at least k
\* are at or above it
KthLargest(s, k) ==
    CHOOSE v \in {s[i] : i \in 1..Len(s)} :
        /\ Cardinality({i \in 1..Len(s) : s[i] > v}) < k
        /\ Cardinality({i \in 1..Len(s) : s[i] >= v}) >= k
Threshold == KthLargest(next_token_scores, ClampedTopK)
Retained == {i \in 1..Len(next_token_scores) : next_token_scores[i] >= Threshold}
AtThreshold == {i \in 1..Len(next_token_scores) : next_token_scores[i] = Threshold}
\* the 0-based indices holding the highest score of s
ArgMax(s) == {i - 1 : i \in {j \in 1..Len(s) : s[j] = SeqMax(s)}}
NonUniform(s) == \E i, j \in 1..Len(s) : s[i] # s[j]

\* C5: get_top_k_logits leaves every entry whose score is at least the
\* top_k-th largest score (top_k clamped to [1, V]) unchanged and makes every
\* other entry negative infinity; at least top_k entries are retained, and
\* exactly top_k unless several entries tie at the threshold.
C5_TopKFilter ==
    Filtered =>
        /\ Len(filtred_scores) = Len(next_token_scores)
        /\ \A i \in 1..Len(next_token_scores) :
               filtred_scores[i] = IF i \in Retained THEN next_token_scores[i] ELSE NegInf
        /\ Cardinality(Retained) >= ClampedTopK
        /\ (Cardinality(Retained) = ClampedTopK \/ Cardinality(AtThreshold) >= 2)

C5_Witness ==
    /\ Filtered
    /\ top_k = 2
    /\ Cardinality(Retained) = 2
    /\ \E i \in 1..Len(filtred_scores) :
          next_token_scores[i] # NegInf /\ filtred_scores[i] = NegInf

\* C6 (as claimed): with top_k = 1 and logits that are not all equal, exactly
\* one index has non-zero probability after filtering and softmax, and the
\* draw returns it.
C6_SingleIndex ==
    (fpc \in {"probs", "sampled"} /\ top_k = 1 /\ NonUniform(next_token_scores)) =>
        /\ Cardinality(Draws(probs)) = 1
        /\ fpc = "sampled" => Draws(probs) = {choice}

\* C6 (amended): with top_k = 1 the indices of non-zero probability are
\* exactly those holding the highest score, and the draw returns one of them;
\* it is a single index when the highest score is held by one entry only.
C6_ArgMaxOnly ==
    (fpc \in {"probs", "sampled"} /\ top_k = 1) =>
        /\ Draws(probs) = ArgMax(next_token_scores)
        /\ fpc = "sampled" => choice \in ArgMax(next_token_scores)
        /\ Cardinality(ArgMax(next_token_scores)) = 1 =>
              /\ Cardinality(Draws(probs)) = 1
              /\ fpc = "sampled" => Draws(probs) = {choice}

C6_Witness ==
    /\ fpc = "sampled"
    /\ top_k = 1
    /\ NonUniform(next_token_scores)
    /\ Cardinality(ArgMax(next_token_scores)) = 1
    /\ Draws(probs) = {choice}

\* C8 (as claimed): process_logits followed by get_top_k_logits leaves the
\* caller's logits vector as it was before the call.
C8_InputUnchanged ==
    Filtered => scores = scores_before

====
